---- MODULE Spec2Model ----
(***************************************************************************)
(* The AI reverse proxy: the Express server (server.js) and the three      *)
(* serverless functions (api/index.js, api/openai/v1/models.js,            *)
(* api/openai/v1/chat/completions.js), with the helpers of api/security    *)
(* and api/error-handler.  One request is followed from its arrival to the *)
(* 'finish' event of its response; the only state shared between requests  *)
(* is the bucket table of the process' rate limiter.                       *)
(*                                                                         *)
(* JavaScript values: strings are TLA+ strings, `undefined` is Undefined,  *)
(* a header object is a function from (lower-cased) header names to        *)
(* strings, a missing number is 0 (falsy, as in JavaScript).               *)
(***************************************************************************)
EXTENDS Integers, Sequences, FiniteSets, TLC

VARIABLES app,      \* which process is running: the Express server or a function
          config,   \* SECURITY_CONFIG and NODE_ENV, read once at start-up
          buckets,  \* the bucket table of the process' rate limiter
          req,      \* the request handled in each slot (pc = "idle": none)
          admitted  \* history: successful consumes per client identity in its current window

vars == <<app, config, buckets, req, admitted>>

----------------------------------------------------------------------------
(* Bounds of the model *)

Points == 2        \* bucket capacity (RATE_LIMIT_POINTS, 100 by default), scaled down
NumReq == 2        \* request slots of the burst specification

Req == 1..NumReq
Foreground == {1}  \* the slot of the request followed in full detail

----------------------------------------------------------------------------
(* JavaScript helpers *)

Undefined == "<undefined>"

\* truthiness of a string-or-undefined value
Truthy(v) == v /= Undefined /\ v /= ""

\* a || b on string-or-undefined values
Or(a, b) == IF Truthy(a) THEN a ELSE b

\* {}
EmptyObject == [k \in {} |-> Undefined]

\* obj[name], undefined when the property is missing
Get(obj, name) == IF name \in DOMAIN obj THEN obj[name] ELSE Undefined

\* s.indexOf(pat), 1-based, 0 when pat does not occur
IndexOf(s, pat) ==
  LET n == Len(s)
      m == Len(pat)
      idx == {i \in 1..(n - m + 1) : SubSeq(s, i, i + m - 1) = pat}
  IN  IF idx = {} THEN 0 ELSE CHOOSE i \in idx : \A j \in idx : i <= j

\* s.replace(pat, rep) with a string pattern: the first occurrence only
Replace(s, pat, rep) ==
  LET i == IndexOf(s, pat)
      before == IF i <= 1 THEN "" ELSE SubSeq(s, 1, i - 1)
      after == IF i + Len(pat) > Len(s) THEN "" ELSE SubSeq(s, i + Len(pat), Len(s))
  IN  IF i = 0 THEN s ELSE before \o rep \o after

StartsWith(s, pre) == Len(s) >= Len(pre) /\ SubSeq(s, 1, Len(pre)) = pre

----------------------------------------------------------------------------
(* The processes and their routes *)

Apps == {"server", "api", "openai"}

ChatPath == "/openai/v1/chat/completions"
ModelsPath == "/openai/v1/models"
FilesPath == "/openai/v1/files"
OtherPath == "/nowhere"
ApiPath == "/api"

Paths(a) ==
  CASE a = "server" -> {ChatPath, FilesPath, OtherPath}
    [] a = "api"    -> {ApiPath}
    [] a = "openai" -> {ChatPath, ModelsPath}

Methods == {"GET", "POST", "OPTIONS"}
IPs == {"10.0.0.1", "10.0.0.2"}
Origins == {Undefined, "https://a.com", "https://evil.com"}
Providers == {Undefined, "openai", "OpenAI", "unsupported", "constructor"}

Key20 == "sk-0123456789abcdefg"
Key19 == "sk-0123456789abcdef"

HeaderSets ==
  { ("user-agent" :> "curl/8"),
    ("authorization" :> ("Bearer " \o Key20)) @@ ("cookie" :> "sid=1") @@ ("user-agent" :> "ide"),
    ("x-api-key" :> Key19) @@ ("set-cookie" :> "t=2") @@ ("accept" :> "*/*") }

----------------------------------------------------------------------------
(* api/security: configuration and the pure validators *)

\* SECURITY_CONFIG (allowedOrigins, apiKeyValidation, logRequests) and NODE_ENV
Configs ==
  [allowedOrigins : {{"*"}, {"https://a.com"}},
   apiKeyValidation : BOOLEAN,
   logRequests : BOOLEAN,
   nodeEnv : {"production", "development"}]

\* the configuration of a process started with an empty environment
DefaultConfig ==
  [allowedOrigins |-> {"*"}, apiKeyValidation |-> FALSE, logRequests |-> FALSE,
   nodeEnv |-> "production"]

\* the same matching by prefix instead of by equality
validateOriginByPrefix(cfg, headers) ==
  LET origin == Get(headers, "origin")
  IN  \/ "*" \in cfg.allowedOrigins
      \/ \E a \in cfg.allowedOrigins : origin /= Undefined /\ StartsWith(origin, a)

validateOrigin(cfg, headers) ==
  LET origin == Get(headers, "origin")
  IN  "*" \in cfg.allowedOrigins \/ origin \in cfg.allowedOrigins

validateApiKey(cfg, headers) ==
  IF ~cfg.apiKeyValidation THEN TRUE
  ELSE LET auth == Get(headers, "authorization")
           stripped == IF auth = Undefined THEN Undefined ELSE Replace(auth, "Bearer ", "")
           apiKey == Or(stripped, Get(headers, "x-api-key"))
       IN  Truthy(apiKey) /\ Len(apiKey) >= 20

SensitiveHeaders == {"authorization", "x-api-key", "cookie", "set-cookie"}

\* the same with the delete of 'cookie' forgotten
sanitizeHeadersKeepingCookie(headers) ==
  [result |-> [k \in (DOMAIN headers) \ {"authorization", "x-api-key", "set-cookie"} |-> headers[k]],
   arg |-> headers]

\* sanitizeHeaders works on a spread copy: `result` is what it returns, `arg` is
\* the caller's header object as the call leaves it
sanitizeHeaders(headers) ==
  [result |-> [k \in (DOMAIN headers) \ SensitiveHeaders |-> headers[k]],
   arg |-> headers]

\* the record logRequest prints (the timestamp and the response time are left out)
AuditRecord(rq, statusCode) ==
  [method |-> rq.method, url |-> rq.path, ip |-> rq.ip,
   userAgent |-> Get(rq.headers, "user-agent"), statusCode |-> statusCode,
   sanitizedHeaders |-> sanitizeHeaders(rq.headers).result]

\* logRequest(req, statusCode, responseTime): prints nothing when LOG_REQUESTS is off
logRequest(cfg, rq, statusCode) ==
  IF cfg.logRequests
  THEN [rq EXCEPT !.audits = Append(@, AuditRecord(rq, statusCode)),
                  !.headers = sanitizeHeaders(rq.headers).arg,
                  !.trace = Append(@, "audit")]
  ELSE rq

----------------------------------------------------------------------------
(* api/error-handler *)

\* what the central handler reads of an error object: message, code and
\* statusCode (0: the property is missing), stack, originalError
APIError(message, statusCode, code) ==
  [message |-> message, statusCode |-> statusCode, code |-> code,
   stack |-> "APIError: " \o message, originalError |-> Undefined]

RateLimitError == APIError("Rate limit exceeded", 429, "RATE_LIMIT_EXCEEDED")
AuthenticationError == APIError("Authentication failed", 401, "AUTHENTICATION_ERROR")
ValidationError == APIError("Validation failed", 400, "VALIDATION_ERROR")
ProxyError == APIError("Proxy error", 502, "PROXY_ERROR")

\* a plain Error (new Error(msg), or the TypeError/SyntaxError fetch and
\* response.json() reject with): no code, no statusCode
PlainError(message) ==
  [message |-> message, statusCode |-> 0, code |-> Undefined,
   stack |-> "Error: " \o message, originalError |-> Undefined]

\* the RateLimiterRes object the limiter rejects with: not an Error at all
RateLimiterRes ==
  [message |-> Undefined, statusCode |-> 0, code |-> Undefined,
   stack |-> Undefined, originalError |-> Undefined]

NoResponse == [status |-> 0, headers |-> {}, body |-> [shape |-> "none"]]

\* res.status(status).json(body) / res.status(status).end(), with the response
\* headers set before it
Respond(rq, status, headers, body) ==
  [rq EXCEPT !.pc = "responded",
             !.res = [status |-> status, headers |-> headers, body |-> body],
             !.sent = @ + 1,
             !.trace = Append(@, "respond")]

\* the same with the details attached in every mode
errorHandlerAlwaysDetailed(cfg, error, rq) ==
  LET requestId == Or(rq.requestId, "unknown")
      base == [message |-> error.message,
               code |-> Or(error.code, "INTERNAL_ERROR"),
               requestId |-> requestId]
      details == [stack |-> error.stack, originalError |-> error.originalError]
      status == IF error.statusCode /= 0 THEN error.statusCode ELSE 500
  IN  Respond([rq EXCEPT !.errorLogged = @ + 1], status, rq.res.headers,
              [shape |-> "envelope", error |-> base @@ ("details" :> details)])

\* errorHandler(error, req, res, next)
errorHandler(cfg, error, rq) ==
  LET requestId == Or(rq.requestId, "unknown")
      base == [message |-> error.message,
               code |-> Or(error.code, "INTERNAL_ERROR"),
               requestId |-> requestId]
      details == [stack |-> error.stack, originalError |-> error.originalError]
      envelope == IF cfg.nodeEnv = "development"
                  THEN base @@ ("details" :> details)
                  ELSE base
      status == IF error.statusCode /= 0 THEN error.statusCode ELSE 500
  IN  Respond([rq EXCEPT !.errorLogged = @ + 1], status, rq.res.headers,
              [shape |-> "envelope", error |-> envelope])

----------------------------------------------------------------------------
(* The rate limiter: consume(key) on the bucket table of the process.  The  *)
(* window of a bucket is followed by its `elapsed` flag, which the passing   *)
(* of time sets (WindowElapses below).                                       *)

NewBucket == [consumed |-> 0, elapsed |-> FALSE]

consume(table, key) ==
  LET fresh == key \notin DOMAIN table \/ table[key].elapsed
      cur == IF fresh THEN NewBucket ELSE table[key]
      others == [k \in (DOMAIN table) \ {key} |-> table[k]]
  IN  IF cur.consumed < Points
      THEN [ok |-> TRUE, table |-> others @@ (key :> [cur EXCEPT !.consumed = @ + 1])]
      ELSE [ok |-> FALSE, table |-> others @@ (key :> cur)]

\* the key the handlers consume with: rateLimiter.consume(req.ip)
ConsumeKey(rq) == rq.ip

----------------------------------------------------------------------------
(* Upstream targets and the outbound call *)

PROXY_TARGETS ==
  ("openai" :> "https://api.openai.com") @@
  ("anthropic" :> "https://api.anthropic.com") @@
  ("gemini" :> "https://api.gemini.com")

\* PROXY_TARGETS[provider]: a property read on a plain object literal, which
\* also finds what the object inherits from Object.prototype; the value is
\* given as the template literal `${targetBase}` prints it
TargetBase(provider) ==
  IF provider \in DOMAIN PROXY_TARGETS THEN PROXY_TARGETS[provider]
  ELSE IF provider = "constructor" THEN "function Object() { [native code] }"
  ELSE Undefined

OpenAIBase == "https://api.openai.com"
EnvOpenAIKey == "sk-env-openai-default"

\* req.url / req.originalUrl: the path and the query string
Url(rq) == IF rq.provider = Undefined THEN rq.path ELSE rq.path \o "?provider=" \o rq.provider

\* fetch() rejects at once, without any network traffic, a URL it cannot parse
ValidUrl(u) == StartsWith(u, "https://") \/ StartsWith(u, "http://")

NoCall == [url |-> Undefined, method |-> Undefined, headers |-> EmptyObject, body |-> Undefined]

Body(rq) == IF rq.method /= "GET" THEN "JSON.stringify(req.body)" ELSE Undefined

UpstreamStatuses == {200, 429}
FetchOutcomes == {0} \cup UpstreamStatuses   \* 0: the call fails at network level
JsonOutcomes == {"json", "malformed"}

----------------------------------------------------------------------------
(* Requests *)

IdleReq ==
  [pc |-> "idle", method |-> Undefined, path |-> Undefined, provider |-> Undefined,
   ip |-> Undefined, headers |-> EmptyObject, requestId |-> Undefined,
   finishListener |-> FALSE, consume |-> "none", credential |-> "none",
   out |-> NoCall, upstream |-> 0, res |-> NoResponse, sent |-> 0,
   audits |-> << >>, errorLogged |-> 0, trace |-> << >>]

Init ==
  /\ app \in Apps
  /\ config \in Configs
  /\ app /= "server" => config = DefaultConfig   \* the functions never read it
  /\ buckets = EmptyObject
  /\ req = [r \in Req |-> IdleReq]
  /\ admitted = [i \in IPs |-> 0]

\* a request arrives
Arrive(r, method, path, provider, ip, origin, hs) ==
  /\ req[r].pc = "idle"
  /\ req' = [req EXCEPT ![r] =
        [IdleReq EXCEPT !.pc = "received", !.method = method, !.path = path,
                        !.provider = provider, !.ip = ip,
                        !.headers = IF origin = Undefined THEN hs
                                    ELSE hs @@ ("origin" :> origin)]]
  /\ UNCHANGED <<app, config, buckets, admitted>>

Receive(r) ==
  \E method \in Methods, path \in Paths(app), ip \in IPs, origin \in Origins,
     hs \in HeaderSets, provider \in (IF app = "api" THEN Providers ELSE {Undefined}) :
    Arrive(r, method, path, provider, ip, origin, hs)

\* the call made without its await: the handler goes on whatever the limiter says
CallConsumeUnawaited(r, rq) ==
  LET c == consume(buckets, ConsumeKey(rq))
      ip == rq.ip
  IN  /\ buckets' = c.table
      /\ req' = [req EXCEPT ![r] =
            [rq EXCEPT !.pc = "consumed", !.consume = "ok",
                       !.trace = Append(@, "consume")]]
      /\ admitted' = IF admitted[ip] <= Points
                     THEN [admitted EXCEPT ![ip] = @ + 1]
                     ELSE admitted

\* the call made on a copy of the table: only a new bucket is ever stored
CallConsumeOnCopy(r, rq) ==
  LET c == consume(buckets, ConsumeKey(rq))
      ip == rq.ip
  IN  /\ buckets' = IF ConsumeKey(rq) \in DOMAIN buckets /\ ~buckets[ConsumeKey(rq)].elapsed
                    THEN buckets ELSE c.table
      /\ req' = [req EXCEPT ![r] =
            [rq EXCEPT !.pc = "consumed",
                       !.consume = IF c.ok THEN "ok" ELSE "rejected",
                       !.trace = Append(@, "consume")]]
      /\ admitted' = IF c.ok /\ admitted[ip] <= Points
                     THEN [admitted EXCEPT ![ip] = @ + 1]
                     ELSE admitted

\* the call rateLimiter.consume(req.ip) of a handler: the table is updated at
\* the call, the handler resumes (after its await) in a later step
CallConsume(r, rq) ==
  LET c == consume(buckets, ConsumeKey(rq))
      ip == rq.ip
  IN  /\ buckets' = c.table
      /\ req' = [req EXCEPT ![r] =
            [rq EXCEPT !.pc = "consumed",
                       !.consume = IF c.ok THEN "ok" ELSE "rejected",
                       !.trace = Append(@, "consume")]]
      /\ admitted' = IF c.ok /\ admitted[ip] <= Points
                     THEN [admitted EXCEPT ![ip] = @ + 1]
                     ELSE admitted

\* the window of a bucket runs out
WindowElapses(k) ==
  /\ k \in DOMAIN buckets
  /\ ~buckets[k].elapsed
  /\ buckets' = [buckets EXCEPT ![k].elapsed = TRUE]
  /\ admitted' = [i \in IPs |-> IF i = k THEN 0 ELSE admitted[i]]
  /\ UNCHANGED <<app, config, req>>

----------------------------------------------------------------------------
(* server.js: the middleware chain and the route handlers *)

\* the headers the cors package sets on a request it lets through: the
\* request's origin is reflected, so there is no allow-origin without one
CorsHeaders(rq) ==
  (IF Truthy(Get(rq.headers, "origin")) THEN {"Access-Control-Allow-Origin"} ELSE {})
    \cup {"Access-Control-Allow-Credentials", "Vary"}

\* app.use(cors({origin: ..., credentials: true})): the origin callback, and
\* the package's own answer to OPTIONS (204, preflightContinue off)
CorsMiddleware(r) ==
  LET rq == [req[r] EXCEPT !.trace = Append(@, "origin")]
      origin == Get(rq.headers, "origin")
      only == IF origin = Undefined THEN EmptyObject ELSE ("origin" :> origin)
  IN  /\ app = "server"
      /\ req[r].pc = "received"
      /\ req' = [req EXCEPT ![r] =
            IF ~validateOrigin(config, only)
            THEN errorHandler(config, PlainError("Not allowed by CORS"), rq)
            ELSE IF rq.method = "OPTIONS"
            THEN Respond(rq, 204, CorsHeaders(rq) \cup {"Access-Control-Allow-Methods"},
                         [shape |-> "empty"])
            ELSE [rq EXCEPT !.pc = "logging", !.res.headers = CorsHeaders(rq)]]
      /\ UNCHANGED <<app, config, buckets, admitted>>

\* the request logging middleware: request id, 'finish' listener, next()
RequestLogging(r) ==
  /\ app = "server"
  /\ req[r].pc = "logging"
  /\ req' = [req EXCEPT ![r] = [@ EXCEPT !.pc = "route", !.requestId = "rid",
                                          !.finishListener = TRUE,
                                          !.trace = Append(@, "requestId")]]
  /\ UNCHANGED <<app, config, buckets, admitted>>

\* /openai/v1/chat/completions, /openai/v1/models and /openai/* admit alike
ServerPaths == {ChatPath, ModelsPath, FilesPath}

\* the 404 handler
NotFound(rq) ==
  Respond(rq, 404, rq.res.headers,
          [shape |-> "envelope",
           error |-> [message |-> "Endpoint not found", code |-> "NOT_FOUND",
                      requestId |-> rq.requestId]])

\* routing: a proxy route starts its handler, which consumes first; any other
\* path falls through to the 404 handler
ServerRoute(r) ==
  /\ app = "server"
  /\ req[r].pc = "route"
  /\ IF req[r].path \in ServerPaths
     THEN CallConsume(r, req[r])
     ELSE /\ req' = [req EXCEPT ![r] = NotFound(@)]
          /\ UNCHANGED <<buckets, admitted>>
  /\ UNCHANGED <<app, config>>

\* the fetch() call of the three server handlers
ServerCall(rq) ==
  LET auth == Or(Get(rq.headers, "authorization"), "Bearer " \o EnvOpenAIKey)
  IN  IF rq.path = ModelsPath
      THEN [url |-> OpenAIBase \o "/v1/models", method |-> "GET",
            headers |-> ("Authorization" :> auth) @@ ("User-Agent" :> "AI-Proxy/1.0"),
            body |-> Undefined]
      ELSE [url |-> IF rq.path = ChatPath THEN OpenAIBase \o "/v1/chat/completions"
                    ELSE OpenAIBase \o Replace(Url(rq), "/openai", ""),
            method |-> rq.method,
            headers |-> ("Content-Type" :> "application/json") @@ ("Authorization" :> auth)
                          @@ ("User-Agent" :> "AI-Proxy/1.0"),
            body |-> Body(rq)]

\* a server handler after `await rateLimiter.consume(req.ip)`: a rejection goes
\* through asyncHandler to the error handler; otherwise the credential check
\* and the outbound call
ServerAfterConsume(r) ==
  LET rq == req[r]
      checked == [rq EXCEPT !.trace = Append(@, "credential")]
  IN  /\ app = "server"
      /\ rq.pc = "consumed"
      /\ req' = [req EXCEPT ![r] =
            IF rq.consume = "rejected"
            THEN errorHandler(config, RateLimiterRes, rq)
            ELSE IF ~validateApiKey(config, rq.headers)
            THEN Respond([checked EXCEPT !.credential = "invalid"], 401, rq.res.headers,
                         [shape |-> "plain", error |-> "Invalid API key"])
            ELSE [checked EXCEPT !.pc = "fetching", !.credential = "valid",
                                 !.out = ServerCall(rq),
                                 !.trace = Append(@, "upstream")]]
      /\ UNCHANGED <<app, config, buckets, admitted>>

----------------------------------------------------------------------------
(* The serverless functions: api/index.js, api/openai/v1/models.js and      *)
(* api/openai/v1/chat/completions.js                                         *)

PreflightHeaders ==
  {"Access-Control-Allow-Origin", "Access-Control-Allow-Methods",
   "Access-Control-Allow-Headers"}

\* the method each OpenAI function accepts
AllowedMethod(path) == IF path = ModelsPath THEN "GET" ELSE "POST"

\* the body of the functions' own error answers: {error: msg}
PlainBody(msg) == [shape |-> "plain", error |-> msg]

\* the same with the method and the provider looked at before the limiter
FunctionStartCheckFirst(r) ==
  /\ app \in {"api", "openai"}
  /\ req[r].pc = "received"
  /\ IF req[r].method = "OPTIONS"
     THEN /\ req' = [req EXCEPT ![r] = Respond(@, 200, PreflightHeaders, [shape |-> "empty"])]
          /\ UNCHANGED <<buckets, admitted>>
     ELSE IF app = "openai" /\ req[r].method /= AllowedMethod(req[r].path)
     THEN /\ req' = [req EXCEPT ![r] =
                Respond(@, 405, @.res.headers, PlainBody("Method not allowed"))]
          /\ UNCHANGED <<buckets, admitted>>
     ELSE IF app = "api" /\ ~Truthy(TargetBase(req[r].provider))
     THEN /\ req' = [req EXCEPT ![r] =
                Respond(@, 400, @.res.headers, PlainBody("Invalid provider"))]
          /\ UNCHANGED <<buckets, admitted>>
     ELSE CallConsume(r, req[r])
  /\ UNCHANGED <<app, config>>

\* the start of a function: OPTIONS is answered at once, anything else consumes
FunctionStart(r) ==
  /\ app \in {"api", "openai"}
  /\ req[r].pc = "received"
  /\ IF req[r].method = "OPTIONS"
     THEN /\ req' = [req EXCEPT ![r] = Respond(@, 200, PreflightHeaders, [shape |-> "empty"])]
          /\ UNCHANGED <<buckets, admitted>>
     ELSE CallConsume(r, req[r])
  /\ UNCHANGED <<app, config>>

\* the fetch() call of the two OpenAI functions
OpenaiCall(rq) ==
  LET auth == Or(Get(rq.headers, "authorization"), "Bearer " \o EnvOpenAIKey)
  IN  IF rq.path = ModelsPath
      THEN [url |-> OpenAIBase \o "/v1/models", method |-> "GET",
            headers |-> ("Authorization" :> auth) @@ ("User-Agent" :> "AI-Proxy/1.0"),
            body |-> Undefined]
      ELSE [url |-> OpenAIBase \o "/v1/chat/completions", method |-> "POST",
            headers |-> ("Content-Type" :> "application/json") @@ ("Authorization" :> auth)
                          @@ ("User-Agent" :> "AI-Proxy/1.0"),
            body |-> "JSON.stringify(req.body)"]

\* the fetch() call of api/index.js
ApiCall(rq) ==
  [url |-> TargetBase(rq.provider) \o Replace(Url(rq), "/api/" \o rq.provider, ""),
   method |-> rq.method,
   headers |-> ("Content-Type" :> "application/json")
                 @@ ("Authorization" :> Or(Get(rq.headers, "authorization"), ""))
                 @@ ("X-API-Key" :> Or(Get(rq.headers, "x-api-key"), ""))
                 @@ ("User-Agent" :> "AI-Proxy/1.0"),
   body |-> Body(rq)]


\* an OpenAI function after its consume: 429, the method check, the call
OpenaiAfterConsume(r) ==
  LET rq == req[r]
  IN  /\ app = "openai"
      /\ rq.pc = "consumed"
      /\ req' = [req EXCEPT ![r] =
            IF rq.consume = "rejected"
            THEN Respond(rq, 429, rq.res.headers, PlainBody("Too many requests"))
            ELSE IF rq.method /= AllowedMethod(rq.path)
            THEN Respond(rq, 405, rq.res.headers, PlainBody("Method not allowed"))
            ELSE [rq EXCEPT !.pc = "fetching", !.out = OpenaiCall(rq),
                            !.trace = Append(@, "upstream")]]
      /\ UNCHANGED <<app, config, buckets, admitted>>

\* api/index.js after its consume: 429, the provider lookup, the call; a
\* target that is no URL makes fetch reject, which the handler catches
ApiAfterConsume(r) ==
  LET rq == req[r]
  IN  /\ app = "api"
      /\ rq.pc = "consumed"
      /\ req' = [req EXCEPT ![r] =
            IF rq.consume = "rejected"
            THEN Respond(rq, 429, rq.res.headers, PlainBody("Too many requests"))
            ELSE IF ~Truthy(TargetBase(rq.provider))
            THEN Respond(rq, 400, rq.res.headers, PlainBody("Invalid provider"))
            ELSE IF ~ValidUrl(ApiCall(rq).url)
            THEN Respond([rq EXCEPT !.out = ApiCall(rq)], 500, rq.res.headers,
                         PlainBody("Proxy server error"))
            ELSE [rq EXCEPT !.pc = "fetching", !.out = ApiCall(rq),
                            !.trace = Append(@, "upstream")]]
      /\ UNCHANGED <<app, config, buckets, admitted>>

----------------------------------------------------------------------------
(* The outbound call settles *)

\* what a handler does with a failed fetch() or response.json(): the server
\* handlers let it reach the error handler, the functions catch it
UpstreamFailure(rq, message) ==
  IF app = "server"
  THEN errorHandler(config, PlainError(message), [rq EXCEPT !.upstream = -1])
  ELSE Respond([rq EXCEPT !.upstream = -1], 500, rq.res.headers,
               PlainBody("Proxy server error"))

\* `await fetch(...)` returns a response (status) or fails at network level (0)
FetchSettles(r, outcome) ==
  /\ req[r].pc = "fetching"
  /\ req' = [req EXCEPT ![r] =
        IF outcome = 0
        THEN UpstreamFailure(@, "fetch failed")
        ELSE [@ EXCEPT !.pc = "parsing", !.upstream = outcome]]
  /\ UNCHANGED <<app, config, buckets, admitted>>

UpstreamData == "upstream-json"

\* the relay: res.status(response.status).json(data); the functions add the
\* allow-origin header first
Relay(rq) ==
  Respond(rq, rq.upstream,
          IF app = "server" THEN rq.res.headers
          ELSE rq.res.headers \cup {"Access-Control-Allow-Origin"},
          [shape |-> "upstream", data |-> UpstreamData])

\* `await response.json()` returns the parsed body or throws on a body that is no JSON
JsonSettles(r, outcome) ==
  /\ req[r].pc = "parsing"
  /\ req' = [req EXCEPT ![r] =
        IF outcome = "malformed"
        THEN UpstreamFailure(@, "Unexpected token in JSON")
        ELSE Relay(@)]
  /\ UNCHANGED <<app, config, buckets, admitted>>

\* the response has been written: the 'finish' listener, if one was registered
Finish(r) ==
  /\ req[r].pc = "responded"
  /\ req' = [req EXCEPT ![r] =
        [(IF @.finishListener THEN logRequest(config, @, @.res.status) ELSE @)
           EXCEPT !.pc = "done"]]
  /\ UNCHANGED <<app, config, buckets, admitted>>

\* the request is over; its slot takes the next one
Retire(r) ==
  /\ req[r].pc = "done"
  /\ req' = [req EXCEPT ![r] = IdleReq]
  /\ UNCHANGED <<app, config, buckets, admitted>>

----------------------------------------------------------------------------
(* Specifications *)

Step(r) ==
  \/ Receive(r)
  \/ CorsMiddleware(r)
  \/ RequestLogging(r)
  \/ ServerRoute(r)
  \/ ServerAfterConsume(r)
  \/ FunctionStart(r)
  \/ OpenaiAfterConsume(r)
  \/ ApiAfterConsume(r)
  \/ \E o \in FetchOutcomes : FetchSettles(r, o)
  \/ \E o \in JsonOutcomes : JsonSettles(r, o)
  \/ Finish(r)
  \/ Retire(r)

Next ==
  \/ \E r \in Foreground : Step(r)
  \/ \E k \in DOMAIN buckets : WindowElapses(k)

Spec == Init /\ [][Next]_vars

(* A burst: NumReq requests in flight at once, all of them well-formed POSTs
   to the chat route of the process (provider openai on /api), from either
   client, against a process with the default configuration and a healthy
   upstream *)

InitBurst ==
  /\ app \in Apps
  /\ config = DefaultConfig
  /\ buckets = EmptyObject
  /\ req = [r \in Req |-> IdleReq]
  /\ admitted = [i \in IPs |-> 0]

BurstReceive(r) ==
  \E ip \in IPs :
    Arrive(r, "POST", IF app = "api" THEN ApiPath ELSE ChatPath,
           IF app = "api" THEN "openai" ELSE Undefined, ip, Undefined,
           ("user-agent" :> "curl/8"))

BurstStep(r) ==
  \/ BurstReceive(r)
  \/ CorsMiddleware(r)
  \/ RequestLogging(r)
  \/ ServerRoute(r)
  \/ ServerAfterConsume(r)
  \/ FunctionStart(r)
  \/ OpenaiAfterConsume(r)
  \/ ApiAfterConsume(r)
  \/ FetchSettles(r, 200)
  \/ JsonSettles(r, "json")
  \/ Finish(r)
  \/ Retire(r)

NextBurst ==
  \/ \E r \in Req : BurstStep(r)
  \/ \E k \in DOMAIN buckets : WindowElapses(k)

SpecBurst == InitBurst /\ [][NextBurst]_vars

(* One request to the chat route of the Express server, drawn from a wider
   range of configurations, origins and credentials, and followed to the
   'finish' event of its response *)

UnitOrigins ==
  {Undefined, "https://a.com", "https://a.com/", "http://a.com", "https://b.com"}

UnitHeaderSets ==
  { ("user-agent" :> "curl/8"),
    ("authorization" :> ("Bearer " \o Key19)),
    ("authorization" :> ("Bearer " \o Key20)),
    ("x-api-key" :> Key19),
    ("x-api-key" :> Key20) @@ ("cookie" :> "sid=1"),
    ("authorization" :> ("Basic " \o Key20)),
    ("authorization" :> "Basic dTpw") @@ ("x-api-key" :> Key20),
    ("authorization" :> ("Bearer " \o Key19)) @@ ("x-api-key" :> Key20) }

UnitConfigs ==
  [allowedOrigins : {{"*"}, {"https://a.com"}, {"https://a.com", "https://b.com"}},
   apiKeyValidation : BOOLEAN,
   logRequests : BOOLEAN,
   nodeEnv : {"production", "development", "test", Undefined}]

InitUnit ==
  /\ app = "server"
  /\ config \in UnitConfigs
  /\ buckets = EmptyObject
  /\ admitted = [i \in IPs |-> 0]
  /\ \E method \in Methods, origin \in UnitOrigins, hs \in UnitHeaderSets :
       req = [r \in Req |->
                IF r \in Foreground
                THEN [IdleReq EXCEPT !.pc = "received", !.method = method,
                                     !.path = ChatPath, !.ip = "10.0.0.1",
                                     !.headers = IF origin = Undefined THEN hs
                                                 ELSE hs @@ ("origin" :> origin)]
                ELSE IdleReq]

NextUnit ==
  \E r \in Foreground :
    \/ CorsMiddleware(r)
    \/ RequestLogging(r)
    \/ ServerRoute(r)
    \/ ServerAfterConsume(r)
    \/ \E o \in FetchOutcomes : FetchSettles(r, o)
    \/ \E o \in JsonOutcomes : JsonSettles(r, o)
    \/ Finish(r)

SpecUnit == InitUnit /\ [][NextUnit]_vars

----------------------------------------------------------------------------
(* Properties *)

TypeOK ==
  /\ app \in Apps
  /\ config \in Configs \cup UnitConfigs
  /\ \A r \in Req : req[r].pc \in {"idle", "received", "logging", "route", "consumed",
                                   "fetching", "parsing", "responded", "done"}

\* a step in which request r calls consume
Consumes(r) == req[r].consume = "none" /\ req'[r].consume /= "none"

\* C1: for every client identity, once `Points` consumes have succeeded in its
\* window the next consume in that window is rejected, and the first consume
\* after the window has elapsed succeeds on a bucket reset to zero (so that it
\* counts one afterwards).
C1_ExhaustThenReset ==
  [][\A r \in Req :
       Consumes(r) =>
         LET ip == req'[r].ip
         IN  /\ admitted[ip] = Points => req'[r].consume = "rejected"
             /\ (ip \in DOMAIN buckets /\ buckets[ip].elapsed) =>
                   /\ req'[r].consume = "ok"
                   /\ buckets'[ip] = [consumed |-> 1, elapsed |-> FALSE]]_vars

\* one request of a client was turned away by a full window, the window has
\* elapsed, and a later request of the same client has just been let in on
\* the fresh bucket
C1_Witness ==
  \E r1, r2 \in Req :
    /\ r1 /= r2
    /\ req[r1].ip = req[r2].ip
    /\ req[r1].consume = "rejected" /\ req[r1].pc = "responded"
    /\ req[r2].consume = "ok" /\ req[r2].pc = "consumed"
    /\ req[r2].ip \in DOMAIN buckets
    /\ buckets[req[r2].ip] = [consumed |-> 1, elapsed |-> FALSE]
    /\ admitted[req[r2].ip] = 1

\* C2: however the requests of one client interleave, at most `Points` of them
\* have their consume succeed in one window, and every success is counted in
\* the client's bucket.
C2_NoOverAdmission ==
  \A ip \in IPs :
    /\ admitted[ip] <= Points
    /\ (ip \in DOMAIN buckets /\ ~buckets[ip].elapsed) => buckets[ip].consumed = admitted[ip]
    /\ admitted[ip] > 0 => ip \in DOMAIN buckets

\* two requests of one client are between their consume and its continuation
\* at the same time, the window is full, and one of the two was turned away
C2_Witness ==
  \E r1, r2 \in Req :
    /\ r1 /= r2
    /\ req[r1].ip = req[r2].ip
    /\ req[r1].pc = "consumed" /\ req[r2].pc = "consumed"
    /\ req[r1].consume = "ok" /\ req[r2].consume = "rejected"
    /\ admitted[req[r1].ip] = Points

Answered(r) == req[r].pc \in {"responded", "done"}

IsEnvelope(res, code) == res.body.shape = "envelope" /\ res.body.error.code = code

\* position of the first occurrence of stage e in a trace, 0 if there is none
Pos(trace, e) ==
  IF \E i \in 1..Len(trace) : trace[i] = e
  THEN CHOOSE i \in 1..Len(trace) : trace[i] = e /\ \A j \in 1..(i - 1) : trace[j] /= e
  ELSE 0

\* C3: a request whose consume is rejected is answered 429 with code
\* RATE_LIMIT_EXCEEDED, and neither its credential is checked nor an upstream
\* call made.
C3_RateLimitAnswer ==
  \A r \in Req :
    (Answered(r) /\ req[r].consume = "rejected") =>
      /\ req[r].res.status = 429
      /\ IsEnvelope(req[r].res, "RATE_LIMIT_EXCEEDED")
      /\ req[r].credential = "none"
      /\ req[r].out = NoCall

\* C4: a request whose credential fails validation is answered 401 with code
\* AUTHENTICATION_ERROR and no upstream call is made for it.
C4_CredentialAnswer ==
  \A r \in Req :
    (Answered(r) /\ req[r].credential = "invalid") =>
      /\ req[r].res.status = 401
      /\ IsEnvelope(req[r].res, "AUTHENTICATION_ERROR")
      /\ req[r].out = NoCall

\* C5: a request whose upstream call fails at network level, or comes back
\* with a body that is no JSON, is answered 502 with code PROXY_ERROR.
C5_DispatchFailureAnswer ==
  \A r \in Req :
    (Answered(r) /\ req[r].upstream = -1) =>
      /\ req[r].res.status = 502
      /\ IsEnvelope(req[r].res, "PROXY_ERROR")

\* C6: a request that reaches target resolution with a provider that is no
\* entry of PROXY_TARGETS (or with none) is answered 400 and makes no upstream
\* call.
C6_UnknownProviderAnswer ==
  \A r \in Req :
    (app = "api" /\ Answered(r) /\ req[r].consume = "ok"
       /\ req[r].provider \notin DOMAIN PROXY_TARGETS) =>
      /\ req[r].res.status = 400
      /\ Pos(req[r].trace, "upstream") = 0

\* C7: an OPTIONS request is answered 200 with an empty body and the
\* allow-origin, allow-methods and allow-headers headers, and it consumes no
\* token, has no credential checked and makes no upstream call.
C7_PreflightAnswer ==
  \A r \in Req :
    (Answered(r) /\ req[r].method = "OPTIONS") =>
      /\ req[r].res.status = 200
      /\ req[r].res.body.shape = "empty"
      /\ PreflightHeaders \subseteq req[r].res.headers
      /\ req[r].consume = "none"
      /\ req[r].credential = "none"
      /\ req[r].out = NoCall

\* C8: a non-OPTIONS request passes the rate limit, then the origin check,
\* then the credential check: one the limiter rejects has had neither origin
\* nor credential evaluated, and one from a disallowed origin has consumed a
\* token and never has its credential evaluated.
C8_AdmissionOrder ==
  \A r \in Req :
    (Answered(r) /\ req[r].method /= "OPTIONS") =>
      LET t == req[r].trace
      IN  /\ Pos(t, "origin") > 0 => (Pos(t, "consume") > 0 /\ Pos(t, "consume") < Pos(t, "origin"))
          /\ Pos(t, "credential") > 0 =>
                (Pos(t, "origin") > 0 /\ Pos(t, "origin") < Pos(t, "credential"))
          /\ req[r].consume = "rejected" => (Pos(t, "origin") = 0 /\ Pos(t, "credential") = 0)
          /\ ~validateOrigin(config, req[r].headers) =>
                (Pos(t, "consume") > 0 /\ Pos(t, "credential") = 0)

\* C9: every request, whatever its outcome, has a request id assigned before
\* any admission stage and has produced exactly one audit record when it is
\* over.
C9_OneAuditRecord ==
  \A r \in Req :
    req[r].pc = "done" =>
      /\ req[r].requestId /= Undefined
      /\ req[r].trace[1] = "requestId"
      /\ Len(req[r].audits) = 1

\* C10: no audit record that is logged has authorization, x-api-key, cookie or
\* set-cookie among its sanitizedHeaders, whatever the request carried and
\* however the process is configured, and logging leaves the request's own
\* headers as they were.
C10_Redaction ==
  /\ [](\A r \in Req : \A i \in 1..Len(req[r].audits) :
          (DOMAIN req[r].audits[i].sanitizedHeaders) \cap SensitiveHeaders = {})
  /\ [][\A r \in Req : (req[r].pc = "responded" /\ req'[r].pc = "done") =>
                           req'[r].headers = req[r].headers]_vars

\* a request that carried an Authorization header and a cookie has been logged,
\* and its record kept the headers that are not sensitive
C10_Witness ==
  \E r \in Req :
    /\ req[r].pc = "done"
    /\ {"authorization", "cookie"} \subseteq DOMAIN req[r].headers
    /\ Len(req[r].audits) = 1
    /\ "user-agent" \in DOMAIN req[r].audits[1].sanitizedHeaders

\* the request was turned away by the origin callback of the cors middleware
CorsRejected(r) ==
  /\ Answered(r)
  /\ req[r].res.body.shape = "envelope"
  /\ req[r].res.body.error.message = "Not allowed by CORS"

\* C11: the origin check passes exactly when the allow-list holds "*" or holds
\* the request's origin, compared as whole strings: a request without an
\* origin passes under "*", and under the allow-list ["https://a.com"] the
\* origins "https://a.com/" and "http://a.com" are turned away.
C11_OriginExactMatch ==
  \A r \in Foreground :
    req[r].pc /= "received" =>
      LET origin == Get(req[r].headers, "origin")
          list == config.allowedOrigins
      IN  /\ ~CorsRejected(r) <=> ("*" \in list \/ \E a \in list : a = origin)
          /\ (list = {"https://a.com"} /\ origin \in {"https://a.com/", "http://a.com"})
                => CorsRejected(r)
          /\ (list = {"https://a.com"} /\ origin = "https://a.com") => ~CorsRejected(r)
          /\ (list = {"*"} /\ origin = Undefined) => ~CorsRejected(r)

\* under the allow-list ["https://a.com"] a request from "https://a.com/" has
\* been turned away
C11_Witness ==
  \E r \in Foreground :
    /\ config.allowedOrigins = {"https://a.com"}
    /\ Get(req[r].headers, "origin") = "https://a.com/"
    /\ CorsRejected(r)

\* the credential of a request: the token of an `Authorization: Bearer <token>`
\* header if there is one, the X-API-Key header otherwise
Credential(headers) ==
  LET auth == Get(headers, "authorization")
  IN  IF auth /= Undefined /\ StartsWith(auth, "Bearer ") /\ Len(auth) > 7
      THEN SubSeq(auth, 8, Len(auth))
      ELSE Get(headers, "x-api-key")

\* C12: with validation off every request is accepted; with validation on a
\* request is accepted exactly when it has a credential of at least 20
\* characters, the credential being the Bearer token if there is one and the
\* X-API-Key header otherwise.
C12_CredentialShape ==
  \A r \in Foreground :
    req[r].credential /= "none" =>
      LET cred == Credential(req[r].headers)
      IN  req[r].credential = "valid" <=>
            (~config.apiKeyValidation \/ (Truthy(cred) /\ Len(cred) >= 20))

ErrorCodes ==
  {"RATE_LIMIT_EXCEEDED", "AUTHENTICATION_ERROR", "VALIDATION_ERROR", "PROXY_ERROR",
   "NOT_FOUND", "INTERNAL_ERROR"}

\* the response is an error of the proxy's own making, not a relayed one
OwnError(r) ==
  Answered(r) /\ req[r].res.status >= 400 /\ req[r].res.body.shape /= "upstream"

\* C13: every error response the proxy makes itself has the envelope shape
\* {error: {message, code, requestId, timestamp}} with a code of the taxonomy.
C13_ErrorEnvelope ==
  \A r \in Req :
    OwnError(r) =>
      /\ req[r].res.body.shape = "envelope"
      /\ {"message", "code", "requestId"} \subseteq DOMAIN req[r].res.body.error
      /\ req[r].res.body.error.code \in ErrorCodes

\* C14: in production mode no error response has a details field, a stack
\* trace or the original error; a details field is only ever attached outside
\* production mode.
C14_NoDetailsInProduction ==
  \A r \in Req :
    OwnError(r) =>
      LET body == req[r].res.body
          detailed == body.shape = "envelope" /\ "details" \in DOMAIN body.error
      IN  /\ detailed => config.nodeEnv /= "production"
          /\ config.nodeEnv = "production" =>
                (body.shape = "envelope" =>
                   DOMAIN body.error \subseteq {"message", "code", "requestId"})

\* in production mode the central handler has rendered a failed upstream call,
\* and the envelope has no details
C14_Witness ==
  \E r \in Req :
    /\ config.nodeEnv = "production"
    /\ OwnError(r)
    /\ req[r].errorLogged = 1
    /\ req[r].upstream = -1
    /\ DOMAIN req[r].res.body.error = {"message", "code", "requestId"}

\* outside production the details are attached
C14_DevelopmentDetails ==
  \E r \in Req :
    /\ config.nodeEnv = "development"
    /\ OwnError(r)
    /\ req[r].errorLogged = 1
    /\ "details" \in DOMAIN req[r].res.body.error

\* the request has had its outbound call built
Dispatched(r) == req[r].out.url /= Undefined

OutboundNames == {"Content-Type", "Authorization", "X-API-Key", "User-Agent"}

\* C15: the outbound Authorization is the inbound one when there is one and a
\* configured default credential otherwise; an inbound X-API-Key is forwarded
\* as it came; no other inbound header reaches the upstream.
C15_OutboundHeaders ==
  \A r \in Req :
    Dispatched(r) =>
      LET inAuth == Get(req[r].headers, "authorization")
          inKey == Get(req[r].headers, "x-api-key")
          out == req[r].out.headers
      IN  /\ IF Truthy(inAuth) THEN Get(out, "Authorization") = inAuth
             ELSE Truthy(Get(out, "Authorization"))
          /\ Truthy(inKey) => Get(out, "X-API-Key") = inKey
          /\ DOMAIN out \subseteq OutboundNames
          /\ Get(out, "User-Agent") = "AI-Proxy/1.0"

\* the upstream's response has been relayed to the client
Relayed(r) == Answered(r) /\ req[r].res.body.shape = "upstream"

\* C16: an admitted request whose upstream call returned JSON is answered with
\* the upstream's status and body unchanged, and the response carries
\* Access-Control-Allow-Origin.
C16_Relay ==
  \A r \in Req :
    Relayed(r) =>
      /\ req[r].res.status = req[r].upstream
      /\ req[r].res.body.data = UpstreamData
      /\ "Access-Control-Allow-Origin" \in req[r].res.headers

\* the prefix under which each process is reached
RoutingPrefix == IF app = "api" THEN ApiPath ELSE "/openai"

StripPrefix(s, pre) ==
  IF ~StartsWith(s, pre) THEN s
  ELSE IF Len(s) = Len(pre) THEN ""
  ELSE SubSeq(s, Len(pre) + 1, Len(s))

\* C17: the forwarding URL is the provider's base URL followed by the inbound
\* path and query string with the routing prefix removed and nothing else
\* changed.
C17_ForwardingUrl ==
  \A r \in Req :
    Dispatched(r) =>
      LET base == IF app = "api" THEN TargetBase(req[r].provider) ELSE OpenAIBase
      IN  req[r].out.url = base \o StripPrefix(Url(req[r]), RoutingPrefix)

\* C18: a request is answered once, and every failure is rendered and logged
\* by the central error handler, not by the stage that found it.
C18_CentralHandling ==
  \A r \in Req :
    /\ req[r].sent <= 1
    /\ (OwnError(r) /\ req[r].res.status /= 404) => req[r].errorLogged = 1

\* the request got as far as a route handler: every request of a function,
\* and on the server one that passed the origin check for a routed path
InHandler(r) ==
  /\ Answered(r)
  /\ app = "server" => (~CorsRejected(r) /\ req[r].path \in ServerPaths)

\* C19: a route handler consumes before it looks at the method, the provider
\* or the credential: a request answered 405, 400 or 401 has used one unit of
\* its client's quota, and only OPTIONS requests and requests the limiter
\* rejected have used none.
C19_ConsumeBeforeChecks ==
  \A r \in Req :
    /\ (OwnError(r) /\ req[r].res.status \in {400, 401, 405}) =>
          /\ req[r].consume = "ok"
          /\ 0 < Pos(req[r].trace, "consume")
          /\ Pos(req[r].trace, "consume") < Pos(req[r].trace, "respond")
    /\ InHandler(r) =>
          (req[r].consume /= "ok" <=>
             (req[r].method = "OPTIONS" \/ req[r].consume = "rejected"))

\* a function has answered 405 to a request that was counted
C19_Witness ==
  \E r \in Req :
    /\ Answered(r)
    /\ req[r].res.status = 405
    /\ req[r].consume = "ok"
    /\ admitted[req[r].ip] >= 1

====
